---------------------------- MODULE Spec2Model ----------------------------
(***************************************************************************)
(* A model of metrology: the record parser (src/src/parsing.rs), the       *)
(* statistical reductions and the score composer (src/src/lib.rs) and the  *)
(* per-file step of main (src/src/main.rs).                                *)
(*                                                                         *)
(* f64 values are records [k, m, e]: k is "fin", "nan", "inf" or "ninf",   *)
(* and a finite value is the decimal m * 10^e.  Comparisons follow         *)
(* IEEE-754: every comparison with NaN is false.                           *)
(***************************************************************************)
EXTENDS Integers, Sequences, FiniteSets, TLC

VARIABLES pc, debug, file, buf, parsed, rows, id, input, win, scan, ret,
          sel, coord, scores, acc, sampled, row, header, arr, med

vars == <<pc, debug, file, buf, parsed, rows, id, input, win, scan, ret,
          sel, coord, scores, acc, sampled, row, header,
          arr, med>>

-----------------------------------------------------------------------------
(* f64 *)

NAN == [k |-> "nan", m |-> 0, e |-> 0]

INFINITY == [k |-> "inf", m |-> 0, e |-> 0]

NEG_INFINITY == [k |-> "ninf", m |-> 0, e |-> 0]

\* the finite value m * 10^e
Dec(m, e) == [k |-> "fin", m |-> m, e |-> e]

\* the f64 of an integer literal
F(i) == Dec(i, 0)

is_finite(x) == x.k = "fin"

RECURSIVE Pow10(_)
Pow10(n) == IF n <= 0 THEN 1 ELSE 10 * Pow10(n - 1)

RECURSIVE Digits(_)
Digits(n) == IF n < 10 THEN 1 ELSE 1 + Digits(n \div 10)

AbsInt(i) == IF i < 0 THEN -i ELSE i

SignInt(i) == IF i < 0 THEN -1 ELSE IF i = 0 THEN 0 ELSE 1

MinInt(a, b) == IF a <= b THEN a ELSE b

\* m1 * 10^e1 < m2 * 10^e2 for m1, m2 > 0: by the position of the leading
\* digit, then digit by digit on a common exponent
MagLt(m1, e1, m2, e2) ==
    LET l1 == Digits(m1) + e1
        l2 == Digits(m2) + e2
        lo == MinInt(e1, e2)
    IN  IF l1 # l2 THEN l1 < l2
        ELSE m1 * Pow10(e1 - lo) < m2 * Pow10(e2 - lo)

DecLt(a, b) ==
    LET sa == SignInt(a.m)
        sb == SignInt(b.m)
    IN  IF sa # sb THEN sa < sb
        ELSE IF sa = 0 THEN FALSE
        ELSE IF sa > 0 THEN MagLt(a.m, a.e, b.m, b.e)
        ELSE MagLt(-b.m, b.e, -a.m, a.e)

\* a < b on f64
Lt(a, b) ==
    IF a.k = "nan" \/ b.k = "nan" THEN FALSE
    ELSE IF a.k = "inf" \/ b.k = "ninf" THEN FALSE
    ELSE IF a.k = "ninf" \/ b.k = "inf" THEN TRUE
    ELSE DecLt(a, b)

Gt(a, b) == Lt(b, a)

\* a == b on f64 (false for NaN)
FEq(a, b) ==
    IF a.k = "nan" \/ b.k = "nan" THEN FALSE
    ELSE IF a.k # "fin" \/ b.k # "fin" THEN a.k = b.k
    ELSE ~DecLt(a, b) /\ ~DecLt(b, a)

Le(a, b) == Lt(a, b) \/ FEq(a, b)

Ge(a, b) == Le(b, a)

\* the same f64 in the canonical form: no trailing zero in the mantissa
RECURSIVE Norm(_)
Norm(x) ==
    IF x.k # "fin" THEN x
    ELSE IF x.m = 0 THEN Dec(0, 0)
    ELSE IF x.m % 10 = 0 THEN Norm(Dec(x.m \div 10, x.e + 1))
    ELSE x

\* f64::abs
abs(x) ==
    IF x.k = "fin" THEN Dec(AbsInt(x.m), x.e)
    ELSE IF x.k = "ninf" THEN INFINITY
    ELSE x

\* x * 10^n (n may be negative): exact on decimals
Scale10(x, n) == IF x.k = "fin" THEN Dec(x.m, x.e + n) ELSE x

\* f64::round: to the nearest integer, halves away from zero
round(x) ==
    IF x.k # "fin" \/ x.e >= 0 THEN x
    ELSE IF Digits(AbsInt(x.m)) < -x.e THEN Dec(0, 0)
    ELSE LET p == Pow10(-x.e)
             a == AbsInt(x.m)
             q == a \div p
             r == a % p
             n == IF 2 * r >= p THEN q + 1 ELSE q
         IN  Dec(SignInt(x.m) * n, 0)

-----------------------------------------------------------------------------
(* lib.rs: median5, r6 *)

\* the lower of the two middle values of the first four of five
median5_of_four(five) ==
    LET lo1 == IF Gt(five[1], five[2]) THEN five[2] ELSE five[1]
        hi1 == IF Gt(five[1], five[2]) THEN five[1] ELSE five[2]
        lo2 == IF Gt(five[3], five[4]) THEN five[4] ELSE five[3]
        hi2 == IF Gt(five[3], five[4]) THEN five[3] ELSE five[4]
        a   == IF Lt(lo1, lo2) THEN lo2 ELSE lo1
        b   == IF Gt(hi1, hi2) THEN hi2 ELSE hi1
    IN  IF Gt(a, b) THEN b ELSE a

median5(five) ==
    LET a0 == five[1]
        b0 == five[2]
        a1 == IF Gt(a0, b0) THEN b0 ELSE a0
        b1 == IF Gt(a0, b0) THEN a0 ELSE b0
        c0 == five[3]
        d0 == five[4]
        c1 == IF Gt(c0, d0) THEN d0 ELSE c0
        d1 == IF Gt(c0, d0) THEN c0 ELSE d0
        a2 == IF Lt(a1, c1) THEN c1 ELSE a1
        b2 == IF Gt(b1, d1) THEN d1 ELSE b1
        a3 == IF Gt(a2, b2) THEN b2 ELSE a2
        b3 == IF Gt(a2, b2) THEN a2 ELSE b2
    IN  IF Le(five[5], a3) THEN a3
        ELSE IF Ge(five[5], b3) THEN b3
        ELSE five[5]

\* r6 with the six-decimal rounding for every value under 1e12
r6_six_only(value) ==
    LET a == abs(value)
    IN  IF Lt(a, Dec(1, 12)) THEN Norm(Scale10(round(Scale10(value, 6)), -6))
        ELSE value

r6(value) ==
    LET a == abs(value)
    IN  IF Lt(a, Dec(1, 12))
        THEN IF Ge(a, Dec(1, -2)) THEN Norm(Scale10(round(Scale10(value, 6)), -6))
             ELSE IF Ge(a, Dec(1, -4)) THEN Norm(Scale10(round(Scale10(value, 8)), -8))
             ELSE value
        ELSE value

-----------------------------------------------------------------------------
(* Option<T> *)

None == [some |-> FALSE]

Some(x) == [some |-> TRUE, val |-> x]

-----------------------------------------------------------------------------
(* average::Variance, as lib.rs uses it: new, add, len, mean, error.  The   *)
(* accumulator is held as the sequence of the values added; mean and error *)
(* are computed from it in decimal arithmetic, to the digits an Int holds. *)

MaxInt(a, b) == IF a >= b THEN a ELSE b

\* a / b to the nearest integer, b > 0
RoundDiv(a, b) ==
    LET q == AbsInt(a) \div b
        r == AbsInt(a) % b
    IN  SignInt(a) * (IF 2 * r >= b THEN q + 1 ELSE q)

RECURSIVE ISqrtIter(_, _, _)
ISqrtIter(x, lo, hi) ==
    IF hi - lo <= 1 THEN lo
    ELSE LET mid == (lo + hi) \div 2
         IN  IF mid * mid <= x THEN ISqrtIter(x, mid, hi) ELSE ISqrtIter(x, lo, mid)

\* the integer square root of x >= 0
ISqrt(x) == ISqrtIter(x, 0, 46341)

RECURSIVE MinExp(_, _)
\* the least exponent among the values v[1..i]
MinExp(v, i) == IF i = 1 THEN v[1].e ELSE MinInt(v[i].e, MinExp(v, i - 1))

RECURSIVE SumInt(_, _)
SumInt(f, i) == IF i = 0 THEN 0 ELSE f[i] + SumInt(f, i - 1)

\* the values of v as integers, in units of 10^MinExp
Aligned(v) == [i \in 1..Len(v) |-> v[i].m * Pow10(v[i].e - MinExp(v, Len(v)))]

VarianceNew == <<>>

VarianceAdd(v, x) == Append(v, x)

VarianceLen(v) == Len(v)

\* Variance::mean: NaN for an empty sample
VarianceMean(v) ==
    IF Len(v) = 0 THEN NAN
    ELSE LET sum == SumInt(Aligned(v), Len(v))
             k   == MaxInt(0, 9 - Digits(AbsInt(sum)))
         IN  IF sum % Len(v) = 0 THEN Norm(Dec(sum \div Len(v), MinExp(v, Len(v))))
             ELSE Norm(Dec(RoundDiv(sum * Pow10(k), Len(v)), MinExp(v, Len(v)) - k))

\* Variance::error: sqrt(sample variance / n), NaN for fewer than 2 values
VarianceError(v) ==
    IF Len(v) < 2 THEN NAN
    ELSE LET n   == Len(v)
             a   == Aligned(v)
             sum == SumInt(a, n)
             q   == SumInt([i \in 1..n |-> (n * a[i] - sum) * (n * a[i] - sum)], n)
             den == n * n * n * (n - 1)
             k   == MaxInt(0, (9 - Digits(q)) \div 2)
         IN  Norm(Dec(ISqrt((q * Pow10(2 * k)) \div den), MinExp(v, n) - k))

RECURSIVE CollectFinite(_, _, _)
\* input.iter().map(f).filter(|x| x.is_finite()).collect()
CollectFinite(vals, i, v) ==
    IF i > Len(vals) THEN v
    ELSE CollectFinite(vals, i + 1,
                       IF is_finite(vals[i]) THEN VarianceAdd(v, vals[i]) ELSE v)

the_area(in) == CollectFinite([i \in 1..Len(in) |-> in[i].area], 1, VarianceNew)

the_midline(in) == CollectFinite([i \in 1..Len(in) |-> in[i].midline], 1, VarianceNew)

-----------------------------------------------------------------------------
(* Sampled, Speed *)

SampledZero == [mean |-> NAN, sem |-> NAN, n |-> 0]

\* impl From<average::Variance> for Sampled
SampledFrom(v) == [mean |-> r6(VarianceMean(v)), sem |-> r6(VarianceError(v)), n |-> VarianceLen(v)]

SpeedZero == [stats |-> SampledZero, max |-> NAN]

\* impl From<(average::Variance, f64)> for Speed
SpeedFrom(v, mx) == [stats |-> SampledFrom(v), max |-> mx]

-----------------------------------------------------------------------------
(* the_speed_in *)

\* the locals before the loop (the slots of five are five[1..5], j is 0-based)
SpeedLocals ==
    [stats |-> VarianceNew, five |-> [i \in 1..5 |-> F(0)], max_s |-> F(0),
     j |-> 0, n |-> 0, before |-> FALSE]

\* the block run for an in-window record with a finite speed
SpeedAccumulate(s, data) ==
    LET five == [s.five EXCEPT ![s.j + 1] = data.speed]
        n    == s.n + 1
        j    == IF s.j + 1 >= 5 THEN 0 ELSE s.j + 1
        m    == median5(five)
    IN  [s EXCEPT !.stats = VarianceAdd(s.stats, data.speed),
                  !.five = five, !.n = n, !.j = j,
                  !.max_s = IF n >= 5 /\ Gt(m, s.max_s) THEN m ELSE s.max_s]

\* SpeedStep deciding the result on the count alone, before forgotten
SpeedStepNoBefore(t0, t1, s, data) ==
    IF Lt(data.time, t0)
    THEN [s |-> [s EXCEPT !.before = TRUE], returned |-> FALSE, result |-> None]
    ELSE IF Gt(data.time, t1)
    THEN [s |-> s, returned |-> TRUE,
          result |-> IF s.n >= 5 THEN Some(SpeedFrom(s.stats, s.max_s)) ELSE None]
    ELSE IF is_finite(data.speed)
    THEN [s |-> SpeedAccumulate(s, data), returned |-> FALSE, result |-> None]
    ELSE [s |-> s, returned |-> FALSE, result |-> None]

\* one iteration of the while loop on record data: the locals after it and,
\* when the iteration returns, the value returned
SpeedStep(t0, t1, s, data) ==
    IF Lt(data.time, t0)
    THEN [s |-> [s EXCEPT !.before = TRUE], returned |-> FALSE, result |-> None]
    ELSE IF Gt(data.time, t1)
    THEN [s |-> s, returned |-> TRUE,
          result |-> IF s.before /\ s.n >= 5 THEN Some(SpeedFrom(s.stats, s.max_s))
                     ELSE None]
    ELSE IF is_finite(data.speed)
    THEN [s |-> SpeedAccumulate(s, data), returned |-> FALSE, result |-> None]
    ELSE [s |-> s, returned |-> FALSE, result |-> None]

RECURSIVE SpeedLoop(_, _, _, _, _)
SpeedLoop(t0, t1, s, in, i) ==
    IF i > Len(in) THEN None
    ELSE LET r == SpeedStep(t0, t1, s, in[i])
         IN  IF r.returned THEN r.result ELSE SpeedLoop(t0, t1, r.s, in, i + 1)

the_speed_in(t0, t1, in) == SpeedLoop(t0, t1, SpeedLocals, in, 1)

-----------------------------------------------------------------------------
(* Coord, the_coord *)

CoordZero == [first |-> NAN, last |-> NAN, bound0 |-> NAN, bound1 |-> NAN,
              stats |-> SampledZero]

CoordLocals ==
    [anything |-> FALSE, first |-> NAN, last |-> NAN, bound0 |-> NAN,
     bound1 |-> NAN, stats |-> VarianceNew]

\* CoordStep that sets last with first only
CoordStepLastOnce(c, a) ==
    IF is_finite(a)
    THEN LET c1 == IF ~c.anything
                   THEN [c EXCEPT !.anything = TRUE, !.first = a, !.bound0 = a,
                                  !.bound1 = a, !.last = a]
                   ELSE [c EXCEPT !.bound0 = IF Lt(a, c.bound0) THEN a ELSE @,
                                  !.bound1 = IF Gt(a, c.bound1) THEN a ELSE @]
         IN  [c1 EXCEPT !.stats = VarianceAdd(c.stats, a)]
    ELSE c

\* one iteration of the while loop on value a
CoordStep(c, a) ==
    IF is_finite(a)
    THEN LET c1 == IF ~c.anything
                   THEN [c EXCEPT !.anything = TRUE, !.first = a, !.bound0 = a,
                                  !.bound1 = a]
                   ELSE [c EXCEPT !.bound0 = IF Lt(a, c.bound0) THEN a ELSE @,
                                  !.bound1 = IF Gt(a, c.bound1) THEN a ELSE @]
         IN  [c1 EXCEPT !.last = a, !.stats = VarianceAdd(c.stats, a)]
    ELSE c

RECURSIVE CoordLoop(_, _, _)
CoordLoop(c, vals, i) ==
    IF i > Len(vals) THEN c ELSE CoordLoop(CoordStep(c, vals[i]), vals, i + 1)

\* the closures |d| d.x and |d| d.y
Field(f, d) == IF f = "x" THEN d.x ELSE d.y

the_coord(f, in) ==
    IF Len(in) = 0 THEN CoordZero
    ELSE LET c == CoordLoop(CoordLocals, [i \in 1..Len(in) |-> Field(f, in[i])], 1)
         IN  IF c.anything
             THEN [first |-> c.first, last |-> c.last, bound0 |-> c.bound0,
                   bound1 |-> c.bound1, stats |-> SampledFrom(c.stats)]
             ELSE CoordZero

-----------------------------------------------------------------------------
(* Scores, the_everything *)

ScoresZero ==
    [id |-> 0, t0 |-> NAN, t1 |-> NAN, area |-> SampledZero, midline |-> SampledZero,
     initial_speed |-> None, calm_speed |-> None, aroused_speed |-> None,
     x |-> CoordZero, y |-> CoordZero]

\* what a call gives: a value, or a panic that ends the process
Returned(x) == [panic |-> "", val |-> x]

Panicked(msg) == [panic |-> msg]

\* ScanUp that skips nothing
ScanUpNone(in, i0, i1) == i0

RECURSIVE ScanUp(_, _, _)
\* while i0 < i1 && !input[i0].time.is_finite() { i0 += 1; }   (0-based)
ScanUp(in, i0, i1) ==
    IF i0 < i1 /\ ~is_finite(in[i0 + 1].time) THEN ScanUp(in, i0 + 1, i1) ELSE i0

RECURSIVE ScanDown(_, _, _, _)
\* while i1 >= i0 && !input[i1].time.is_finite() { i1 -= 1; }  (0-based, usize).
\* i1 -= 1 at 0 panics in a build with overflow checks; without them i1 wraps
\* to usize::MAX, i1 >= i0 holds and input[i1] panics: out of bounds.
ScanDown(in, i0, i1, checks) ==
    IF i1 >= i0 /\ ~is_finite(in[i1 + 1].time)
    THEN IF i1 = 0
         THEN Panicked(IF checks THEN "attempt to subtract with overflow"
                       ELSE "index out of bounds")
         ELSE ScanDown(in, i0, i1 - 1, checks)
    ELSE Returned(i1)

the_everything(ident, in, checks) ==
    IF Len(in) = 0 THEN Returned(ScoresZero)
    ELSE LET i0 == ScanUp(in, 0, Len(in) - 1)
             d  == ScanDown(in, i0, Len(in) - 1, checks)
         IN  IF d.panic # "" THEN d
             ELSE IF d.val < i0 THEN Returned(ScoresZero)
             ELSE Returned(
                 [id |-> ident, t0 |-> in[i0 + 1].time, t1 |-> in[d.val + 1].time,
                  area |-> SampledFrom(the_area(in)),
                  midline |-> SampledFrom(the_midline(in)),
                  initial_speed |-> the_speed_in(F(10), F(20), in),
                  calm_speed |-> the_speed_in(F(270), F(290), in),
                  aroused_speed |-> the_speed_in(F(440), F(450), in),
                  x |-> the_coord("x", in), y |-> the_coord("y", in)])

-----------------------------------------------------------------------------
(* parsing.rs.  A buffer is a sequence of one-character strings, a position *)
(* p is the index of the next unread byte, and a parser gives [r, pos, val]:*)
(* r is "Ok" (pos after what it consumed), "Error" or "Incomplete", as      *)
(* nom's IResult does on &[u8] input.  The buffers of the model spell       *)
(* numbers with a sign and digits only.                                     *)

Ok(p, v) == [r |-> "Ok", pos |-> p, val |-> v]

Error(p) == [r |-> "Error", pos |-> p, val |-> <<>>]

Incomplete(p) == [r |-> "Incomplete", pos |-> p, val |-> <<>>]

DigitChars == <<"0", "1", "2", "3", "4", "5", "6", "7", "8", "9">>

IsDigit(c) == \E d \in 1..10 : DigitChars[d] = c

DigitVal(c) == (CHOOSE d \in 1..10 : DigitChars[d] = c) - 1

IsSpace(c) == c \in {" ", "\t", "\n", "\r"}

RECURSIVE SkipWhile(_, _, _)
\* the first position from p on whose byte is not in set cs (Len + 1 if none)
SkipWhile(b, p, cs) ==
    IF p <= Len(b) /\ b[p] \in cs THEN SkipWhile(b, p + 1, cs) ELSE p

RECURSIVE DigitsValue(_, _, _, _)
\* the number spelt by the digits b[p..q-1]
DigitsValue(b, p, q, n) ==
    IF p >= q THEN n ELSE DigitsValue(b, p + 1, q, 10 * n + DigitVal(b[p]))

DigitSet == {DigitChars[d] : d \in 1..10}

\* nom's double: an optional sign and digits; at the end of the input it
\* cannot tell whether the number goes on: Incomplete
double(b, p) ==
    LET neg == p <= Len(b) /\ b[p] = "-"
        d   == IF neg THEN p + 1 ELSE p
        q   == SkipWhile(b, d, DigitSet)
    IN  IF q > Len(b) THEN Incomplete(p)
        ELSE IF q = d THEN Error(p)
        ELSE Ok(q, F((IF neg THEN -1 ELSE 1) * DigitsValue(b, d, q, 0)))

\* tag_s!(t): Ok on a match, Incomplete when the input ends inside a match
tag(t, b, p) ==
    LET n == MinInt(Len(t), Len(b) - p + 1)
    IN  IF \E i \in 1..n : b[p + i - 1] # t[i] THEN Error(p)
        ELSE IF n < Len(t) THEN Incomplete(p)
        ELSE Ok(p + Len(t), <<>>)

\* map_res!(map_res!(rest, from_utf8), parse::<f64>): the whole rest of the
\* input must spell a number
double_at_end(b, p) ==
    LET neg == p <= Len(b) /\ b[p] = "-"
        d   == IF neg THEN p + 1 ELSE p
        q   == SkipWhile(b, d, DigitSet)
    IN  IF q > Len(b) /\ q > d
        THEN Ok(q, F((IF neg THEN -1 ELSE 1) * DigitsValue(b, d, q, 0)))
        ELSE Error(p)

\* complete!: Incomplete becomes Error
complete(res) == IF res.r = "Incomplete" THEN Error(res.pos) ELSE res

\* map!(tag_s!(t), |_| v)
TagValue(t, v, b, p) ==
    LET res == tag(t, b, p) IN IF res.r = "Ok" THEN Ok(res.pos, v) ELSE res

RECURSIVE FirstOk(_, _, _)
\* alt_complete!: the result of the first alternative that succeeds
FirstOk(alts, i, p) ==
    IF i > Len(alts) THEN Error(p)
    ELSE IF alts[i].r = "Ok" THEN alts[i]
    ELSE FirstOk(alts, i + 1, p)

java_double(b, p) ==
    FirstOk(<<complete(double(b, p)),
              complete(TagValue(<<"N", "a", "N">>, NAN, b, p)),
              complete(TagValue(<<"-", "I", "n", "f", "i", "n", "i", "t", "y">>,
                                NEG_INFINITY, b, p)),
              complete(TagValue(<<"I", "n", "f", "i", "n", "i", "t", "y">>,
                                INFINITY, b, p)),
              complete(double_at_end(b, p))>>, 1, p)

\* nom's multispace: one or more of space, tab, CR, LF; Incomplete when the
\* input ends before a byte that is none of them
multispace(b, p) ==
    LET q == SkipWhile(b, p, {" ", "\t", "\n", "\r"})
    IN  IF q > Len(b) THEN Incomplete(p)
        ELSE IF q = p THEN Error(p)
        ELSE Ok(q, <<>>)

\* token_end skipping only the whitespace byte it stands on
token_end_one_byte(b, p) ==
    IF p > Len(b) THEN Ok(p, <<>>)
    ELSE IF b[p] \in {" ", "\t", "\n", "\r"} THEN Ok(p + 1, <<>>)
    ELSE Error(p)

token_end(b, p) ==
    IF p > Len(b) THEN Ok(p, <<>>)
    ELSE IF b[p] \in {" ", "\t", "\n", "\r"}
         THEN LET lf == {k \in p..Len(b) : b[k] = "\n"}
              IN  IF lf = {} THEN Ok(Len(b) + 1, <<>>)
                  ELSE Ok((CHOOSE k \in lf : \A l \in lf : k <= l) + 1, <<>>)
         ELSE Error(p)

RECURSIVE Fields(_, _, _, _)
RECURSIVE FieldEnd(_, _, _, _)
RECURSIVE FieldNext(_, _, _, _)
\* the fields from the k-th on of do_parse!(java_double >> multispace >> ...
\* >> java_double >> token_end): got holds the values of the fields before
Fields(b, p, k, got) == FieldEnd(b, k, got, java_double(b, p))

\* what follows the k-th number v: multispace, or token_end after the sixth
FieldEnd(b, k, got, v) ==
    IF v.r # "Ok" THEN v
    ELSE FieldNext(b, k, Append(got, v.val),
                   IF k < 6 THEN multispace(b, v.pos) ELSE token_end(b, v.pos))

\* after the separator s: the next field, or the six values
FieldNext(b, k, got, s) ==
    IF s.r # "Ok" THEN s
    ELSE IF k < 6 THEN Fields(b, s.pos, k + 1, got)
    ELSE Ok(s.pos, got)

\* (DataLine{ time, area, speed, midline, x, y })
DataLineOf(f) ==
    IF f.r # "Ok" THEN f
    ELSE Ok(f.pos, [time |-> f.val[1], area |-> f.val[2], speed |-> f.val[3],
                    midline |-> f.val[4], x |-> f.val[5], y |-> f.val[6]])

get_data_line(b, p) == DataLineOf(Fields(b, p, 1, <<>>))

RECURSIVE Many1Loop(_, _, _)
RECURSIVE Many1Step(_, _, _, _)
\* the loop of many1! after a first success, gathering into res
Many1Loop(b, p, res) == Many1Step(b, p, res, get_data_line(b, p))

\* an Error of the parser ends the loop with what was gathered, any other
\* failure fails the whole; a success that consumed nothing ends it too
Many1Step(b, p, res, one) ==
    IF one.r = "Error" THEN Ok(p, res)
    ELSE IF one.r # "Ok" THEN one
    ELSE IF one.pos = p THEN Ok(p, res)
    ELSE Many1Loop(b, one.pos, Append(res, one.val))

\* the first application of many1!: any failure of it fails the whole
Many1First(b, one) ==
    IF one.r # "Ok" THEN one ELSE Many1Loop(b, one.pos, <<one.val>>)

\* many1!(get_data_line) from the start of the buffer
get_data_lines(b) == Many1First(b, get_data_line(b, 1))

-----------------------------------------------------------------------------
(* Display and Entitled.  A String is the sequence of the pieces pushed to  *)
(* it, each piece a single space " " or a text without a space.             *)

RECURSIVE Zeros(_)
Zeros(n) == IF n <= 0 THEN "" ELSE "0" \o Zeros(n - 1)

\* Display of u32 and u64
FmtU(n) == ToString(n)

\* Display of f64
FmtF(x) ==
    IF x.k = "nan" THEN "NaN"
    ELSE IF x.k = "inf" THEN "inf"
    ELSE IF x.k = "ninf" THEN "-inf"
    ELSE LET a    == AbsInt(x.m)
             sign == IF x.m < 0 THEN "-" ELSE ""
             int  == IF -x.e > 9 THEN 0 ELSE a \div Pow10(-x.e)
             frac == IF -x.e > 9 THEN a ELSE a % Pow10(-x.e)
         IN  IF a = 0 THEN "0"
             ELSE IF x.e >= 0 THEN sign \o ToString(a) \o Zeros(x.e)
             ELSE sign \o ToString(int) \o "." \o Zeros(-x.e - Digits(frac))
                       \o ToString(frac)

\* impl Display for Sampled
SampledDisplay(s) == <<FmtU(s.n), " ", FmtF(s.mean), " ", FmtF(s.sem)>>

\* impl Display for Speed
SpeedDisplay(s) == SampledDisplay(s.stats) \o <<" ", FmtF(s.max)>>

\* impl Display for Coord
CoordDisplay(c) ==
    <<FmtF(c.first), " ", FmtF(c.last), " ", FmtF(c.bound0), " ", FmtF(c.bound1), " ">>
    \o SampledDisplay(c.stats)

\* Option::unwrap_or
unwrap_or(o, d) == IF o.some THEN o.val ELSE d

\* impl Display for Scores
ScoresDisplay(s) ==
    <<FmtU(s.id), " ", FmtF(s.t0), " ", FmtF(s.t1), " ">>
    \o SampledDisplay(s.area) \o <<" ">>
    \o SampledDisplay(s.midline) \o <<" ">>
    \o SpeedDisplay(unwrap_or(s.initial_speed, SpeedZero)) \o <<" ">>
    \o SpeedDisplay(unwrap_or(s.calm_speed, SpeedZero)) \o <<" ">>
    \o SpeedDisplay(unwrap_or(s.aroused_speed, SpeedZero)) \o <<" ">>
    \o CoordDisplay(s.x) \o <<" ">>
    \o CoordDisplay(s.y)

\* impl Entitled for Sampled: push_subtitle(specifier, to), giving to
SampledSubtitle(specifier, to) ==
    to \o specifier \o <<"n", " ">> \o specifier \o <<"mean", " ">>
       \o specifier \o <<"sem">>

\* the subtitle of a Speed without its max
SpeedSubtitleNoMax(specifier, to) == SampledSubtitle(specifier, to)

\* impl Entitled for Speed
SpeedSubtitle(specifier, to) ==
    SampledSubtitle(specifier, to) \o <<" ">> \o specifier \o <<"max">>

\* impl Entitled for Coord
CoordSubtitle(specifier, to) ==
    SampledSubtitle(specifier,
        to \o specifier \o <<"first", " ">> \o specifier \o <<"last", " ">>
           \o specifier \o <<"smallest", " ">> \o specifier \o <<"largest", " ">>)

\* impl Entitled for Scores: with an empty specifier the sub-records get their
\* own names as specifier, otherwise the specifier followed by them
ScoresSubtitle(specifier, to) ==
    LET sub == IF Len(specifier) = 0 THEN <<>> ELSE specifier
    IN  CoordSubtitle(sub \o <<"y-">>,
          CoordSubtitle(sub \o <<"x-">>,
            SpeedSubtitle(sub \o <<"aroused-">>,
              SpeedSubtitle(sub \o <<"calm-">>,
                SpeedSubtitle(sub \o <<"initial-">>,
                  SampledSubtitle(sub \o <<"midline-">>,
                    SampledSubtitle(sub \o <<"area-">>,
                      to \o specifier \o <<"id", " ">> \o specifier \o <<"t0", " ">>
                         \o specifier \o <<"t1">> \o <<" ">>)
                    \o <<" ">>)
                  \o <<" ">>)
                \o <<" ">>)
              \o <<" ">>)
            \o <<" ">>)
          \o <<" ">>)

\* Entitled::title: push_title, that is push_subtitle("", ...), on a new String
title(s) == ScoresSubtitle(<<>>, <<>>)

RECURSIVE Join(_, _, _)
\* the text of the pieces p to q - 1 of a String
Join(str, p, q) == IF p >= q THEN "" ELSE str[p] \o Join(str, p + 1, q)

\* the first space of a String at or after the piece p, or its end
SpaceFrom(str, p) ==
    IF \E i \in p..Len(str) : str[i] = " "
    THEN CHOOSE i \in p..Len(str) :
            str[i] = " " /\ \A j \in p..(i - 1) : str[j] # " "
    ELSE Len(str) + 1

\* the piece the k-th token of a String starts at: after its (k-1)-th space
TokenStart(str, k) ==
    IF k = 1 THEN 1
    ELSE 1 + CHOOSE i \in 1..Len(str) :
                 str[i] = " " /\ Cardinality({j \in 1..i : str[j] = " "}) = k - 1

\* str::split(' '): the texts between the spaces of a String
Tokens(str) ==
    [k \in 1..(Cardinality({i \in 1..Len(str) : str[i] = " "}) + 1) |->
        Join(str, TokenStart(str, k), SpaceFrom(str, TokenStart(str, k)))]

-----------------------------------------------------------------------------
(* The input files of the model.  A file is written as records of tokens,   *)
(* every token a text with the f64 it spells (ok is FALSE for a text that   *)
(* spells none), the separator put between the fields, the separator put    *)
(* after each record but the last, and the text after the last record.      *)

\* the most records in a file
MaxRecs == 3

RECURSIVE ToChars(_)
\* the digits of n >= 0
ToChars(n) ==
    IF n < 10 THEN <<DigitChars[n + 1]>>
    ELSE Append(ToChars(n \div 10), DigitChars[(n % 10) + 1])

NumTok(n) ==
    [txt |-> IF n < 0 THEN <<"-">> \o ToChars(-n) ELSE ToChars(n), ok |-> TRUE,
     val |-> F(n)]

NaNTok == [txt |-> <<"N", "a", "N">>, ok |-> TRUE, val |-> NAN]

InfTok == [txt |-> <<"I", "n", "f", "i", "n", "i", "t", "y">>, ok |-> TRUE,
           val |-> INFINITY]

NegInfTok == [txt |-> <<"-", "I", "n", "f", "i", "n", "i", "t", "y">>, ok |-> TRUE,
              val |-> NEG_INFINITY]

\* a text that is no number, and a number with a letter stuck to it
JunkTok == [txt |-> <<"x">>, ok |-> FALSE, val |-> NAN]

TailTok(n) == [txt |-> Append(ToChars(n), "x"), ok |-> FALSE, val |-> NAN]

FieldSeps == {<<" ">>, <<"\t", " ">>, <<"\r", "\n">>}

\* separators that end at their first line feed, and separators that do not
LineSeps == {<<"\n">>, <<"\r", "\n">>, <<" ", "\t", "\n">>}

RecSeps == LineSeps \cup {<<" ">>, <<"\r">>, <<"\n", "\n">>}

Terms == {<<>>, <<"\n">>, <<" ">>, <<"\n", "\n">>}

\* what is changed in an otherwise plain file: nothing, one token of the first
\* record spelt as a special or negative value, or one record made malformed
Changes ==
    {[kind |-> "none", rec |-> 1, field |-> 1]}
    \cup {[kind |-> c, rec |-> 1, field |-> f] :
            c \in {"NaN", "Infinity", "-Infinity", "neg"}, f \in {1, 6}}
    \cup {[kind |-> c, rec |-> r, field |-> f] :
            c \in {"junk", "tail", "short"}, r \in 1..MaxRecs, f \in {1, 3, 6}}

\* the f-th token of the r-th record: the number 10 r + f unless changed
TokenAt(r, f, ch) ==
    IF ch.rec # r \/ ch.field # f \/ ch.kind \in {"none", "short"} THEN NumTok(10 * r + f)
    ELSE IF ch.kind = "NaN" THEN NaNTok
    ELSE IF ch.kind = "Infinity" THEN InfTok
    ELSE IF ch.kind = "-Infinity" THEN NegInfTok
    ELSE IF ch.kind = "neg" THEN NumTok(-(10 * r + f))
    ELSE IF ch.kind = "junk" THEN JunkTok
    ELSE TailTok(10 * r + f)

\* a "short" record is cut after its field ch.field (kept whole if that is 6)
RecordAt(r, ch) ==
    [f \in 1..(IF ch.kind = "short" /\ ch.rec = r /\ ch.field < 6 THEN ch.field ELSE 6)
       |-> TokenAt(r, f, ch)]

\* k records; the separator after record gap is rsep, after the others a line feed
FileOf(k, fsep, gap, rsep, term, ch) ==
    [recs  |-> [r \in 1..k |-> RecordAt(r, ch)],
     fsep  |-> fsep,
     rseps |-> [r \in 1..(k - 1) |-> IF r = gap THEN rsep ELSE <<"\n">>],
     term  |-> term]

RECURSIVE JoinTokens(_, _, _)
\* the tokens rec[i..] with sep between them
JoinTokens(rec, i, sep) ==
    IF i > Len(rec) THEN <<>>
    ELSE IF i = Len(rec) THEN rec[i].txt
    ELSE rec[i].txt \o sep \o JoinTokens(rec, i + 1, sep)

RECURSIVE JoinRecords(_, _)
JoinRecords(f, r) ==
    IF r > Len(f.recs) THEN f.term
    ELSE JoinTokens(f.recs[r], 1, f.fsep)
         \o (IF r < Len(f.recs) THEN f.rseps[r] ELSE <<>>)
         \o JoinRecords(f, r + 1)

\* the bytes of a file
Bytes(f) == JoinRecords(f, 1)

\* a record of f is malformed: it has not six tokens, or a token is no number
HasMalformed(f) ==
    \E r \in 1..Len(f.recs) :
        Len(f.recs[r]) # 6 \/ \E i \in 1..Len(f.recs[r]) : ~f.recs[r][i].ok

\* the records a file of well-formed records spells, in file order
Spelt(f) ==
    [r \in 1..Len(f.recs) |->
        [time |-> f.recs[r][1].val, area |-> f.recs[r][2].val,
         speed |-> f.recs[r][3].val, midline |-> f.recs[r][4].val,
         x |-> f.recs[r][5].val, y |-> f.recs[r][6].val]]

-----------------------------------------------------------------------------
(* main, for one file of the chosen prefix: read, parse, score.  The calls  *)
(* main makes only to print (lines 127-141) change nothing and are left out.*)

NoFile == [recs |-> <<>>, fsep |-> <<>>, rseps |-> <<>>, term |-> <<>>]

NoParse == [r |-> "", pos |-> 0, val |-> <<>>]

NoData == [time |-> NAN, area |-> NAN, speed |-> NAN, midline |-> NAN, x |-> NAN,
           y |-> NAN]

NoWin == [t0 |-> NAN, t1 |-> NAN]

\* the variables of the other operations, at rest
RestMain == /\ file = NoFile /\ buf = <<>> /\ parsed = NoParse /\ rows = <<>>

RestSpeed == /\ win = NoWin /\ scan = SpeedLocals /\ ret = None

RestCoord == /\ sel = "x" /\ coord = CoordZero

RestScores == /\ scores = Returned(ScoresZero)

RestSampled == /\ acc = VarianceNew /\ sampled = SampledZero

RestTitle == /\ row = <<>> /\ header = <<>>

RestMedian == /\ arr = [i \in 1..5 |-> F(0)] /\ med = NAN

Ids == {7}

InitMain ==
    /\ pc = "read"
    /\ debug \in BOOLEAN
    /\ \E k \in 1..MaxRecs, fsep \in FieldSeps, gap \in 1..MaxInt(1, MaxRecs - 1),
          rsep \in RecSeps, term \in Terms, ch \in Changes :
            file = FileOf(k, fsep, gap, rsep, term, ch)
    /\ buf = Bytes(file)
    /\ parsed = NoParse
    /\ rows = <<>>
    /\ id \in Ids
    /\ input = <<>>
    /\ RestSpeed /\ RestCoord /\ RestScores /\ RestSampled /\ RestTitle /\ RestMedian

\* let data = match get_data_lines(v.as_slice()) { Ok(y) => y.1, Err(e) => exit(1) }
MainParse ==
    /\ pc = "read"
    /\ parsed' = get_data_lines(buf)
    /\ IF parsed'.r = "Ok"
       THEN pc' = "parsed" /\ input' = parsed'.val
       ELSE pc' = "exit" /\ input' = input
    /\ UNCHANGED <<debug, file, buf, rows, id, win, scan, ret, sel, coord, scores,
                   acc, sampled, row, header, arr, med>>

\* rows.push(the_everything(d.id, &data))
MainScore ==
    /\ pc = "parsed"
    /\ scores' = the_everything(id, input, debug)
    /\ IF scores'.panic = ""
       THEN pc' = "pushed" /\ rows' = Append(rows, scores'.val)
       ELSE pc' = "panic" /\ rows' = rows
    /\ UNCHANGED <<debug, file, buf, parsed, id, input, win, scan, ret, sel, coord,
                   acc, sampled, row, header, arr, med>>

NextMain == MainParse \/ MainScore

Spec == InitMain /\ [][NextMain]_vars

-----------------------------------------------------------------------------
(* Claims on the parser and on main *)

\* C2: parsing is all-or-nothing: whenever the file holds a malformed record,
\* at any position, get_data_lines fails, and main pushes no Scores for the file
C2_AllOrNothing ==
    (pc # "read" /\ HasMalformed(file)) => (parsed.r # "Ok" /\ rows = <<>>)

\* C3, as stated: a file of well-formed records, whatever whitespace separates
\* its fields and its records, parses to exactly its records, in file order,
\* every token in its field
C3_AnyWhitespace ==
    (pc # "read" /\ ~HasMalformed(file))
        => (parsed.r = "Ok" /\ parsed.val = Spelt(file))

\* every record but the last is followed by whitespace that ends at its first
\* line feed
LineSeparated(f) == \A r \in 1..Len(f.rseps) : f.rseps[r] \in LineSeps

\* C3, amended: a file of well-formed records, whatever whitespace separates
\* its fields, whose records are each separated from the next by spaces, tabs
\* or CRs ending in one line feed, parses to exactly its records, in file
\* order, every token in its field
C3_LineSeparated ==
    (pc # "read" /\ ~HasMalformed(file) /\ LineSeparated(file))
        => (parsed.r = "Ok" /\ parsed.val = Spelt(file))

\* C3's case: three records, fields separated by CR LF, one record followed
\* by space, tab and line feed, and a special value among the tokens
C3_Witness ==
    /\ pc = "parsed"
    /\ Len(file.recs) = MaxRecs
    /\ ~HasMalformed(file)
    /\ LineSeparated(file)
    /\ file.fsep = <<"\r", "\n">>
    /\ \E r \in 1..Len(file.rseps) : file.rseps[r] = <<" ", "\t", "\n">>
    /\ file.recs[1][6].val = NEG_INFINITY
    /\ Len(parsed.val) = MaxRecs
    /\ parsed.val[MaxRecs].y = F(10 * MaxRecs + 6)

-----------------------------------------------------------------------------
(* the_speed_in, iteration by iteration: input holds the records the        *)
(* iterator has given so far, and the iterator may end after any of them.   *)

\* the most records the iterator gives
MaxScan == 7

Rec(t, sp) == [time |-> t, area |-> F(1), speed |-> sp, midline |-> F(1),
               x |-> F(1), y |-> F(1)]

\* the window of the call
Windows == {[t0 |-> F(1), t1 |-> F(2)]}

\* the records of a scan: before the window, in it with a finite speed or
\* none, with no time, and after the window
ScanRecords ==
    {Rec(F(0), F(1)), Rec(F(1), F(-1)), Rec(F(2), F(1)), Rec(F(1), NAN),
     Rec(NAN, F(-1)), Rec(F(3), F(1)), Rec(INFINITY, F(1))}

InitSpeed ==
    /\ pc = "loop"
    /\ debug = FALSE
    /\ id = 0
    /\ input = <<>>
    /\ win \in Windows
    /\ scan = SpeedLocals
    /\ ret = None
    /\ RestMain /\ RestCoord /\ RestScores /\ RestSampled /\ RestTitle /\ RestMedian

\* what an iteration leaves
SpeedTaken(r) ==
    /\ scan' = r.s
    /\ ret' = r.result
    /\ pc' = IF r.returned THEN "done" ELSE "loop"

\* while let Some(data) = i.next() { ... }
SpeedNext ==
    /\ pc = "loop"
    /\ Len(input) < MaxScan
    /\ \E data \in ScanRecords :
          /\ input' = Append(input, data)
          /\ SpeedTaken(SpeedStep(win.t0, win.t1, scan, data))
    /\ UNCHANGED <<debug, file, buf, parsed, rows, id, win, sel, coord, scores, acc,
                   sampled, row, header, arr, med>>

\* i.next() is None: the loop ends and the function returns None
SpeedEnd ==
    /\ pc = "loop"
    /\ pc' = "done"
    /\ ret' = None
    /\ UNCHANGED <<debug, file, buf, parsed, rows, id, input, win, scan, sel, coord,
                   scores, acc, sampled, row, header, arr, med>>

NextSpeed == SpeedNext \/ SpeedEnd

SpecSpeed == InitSpeed /\ [][NextSpeed]_vars

\* the positions of the records after the window, and the first of them
AfterWindow == {i \in 1..Len(input) : Gt(input[i].time, win.t1)}

FirstAfter == CHOOSE i \in AfterWindow : \A k \in AfterWindow : i <= k

\* C4: a Speed is returned only if a record with time < t0 is seen before the
\* first record with time > t1, and never when the records end without a
\* record with time > t1
C4_WindowClosedBothSides ==
    pc = "done" =>
        /\ ret.some =>
              /\ AfterWindow # {}
              /\ \E k \in 1..(FirstAfter - 1) : Lt(input[k].time, win.t0)
        /\ AfterWindow = {} => ~ret.some

\* C4's case: a record before the window, five in it, one after it, and a
\* Speed returned
C4_Witness ==
    /\ pc = "done"
    /\ ret.some
    /\ ret.val.stats.n = 5
    /\ Len(input) = 7
    /\ Lt(input[1].time, win.t0)
    /\ \A k \in 2..6 : Le(win.t0, input[k].time) /\ Le(input[k].time, win.t1)

\* the positions before the first record after the window of the records in
\* the window that have a finite speed
InWindowFinite ==
    {i \in 1..(FirstAfter - 1) :
        /\ Le(win.t0, input[i].time) /\ Le(input[i].time, win.t1)
        /\ is_finite(input[i].speed)}

\* C5: the n of a returned Speed is at least 5 and is the number of records,
\* before the first record with time > t1, with t0 <= time <= t1 and a finite
\* speed
C5_CountsInWindowOnly ==
    (pc = "done" /\ ret.some) =>
        /\ ret.val.stats.n >= 5
        /\ ret.val.stats.n = Cardinality(InWindowFinite)

\* the positions of the records the scan accumulated, in order: those before
\* the first record after the window that are not before it and have a finite
\* speed
Accumulated ==
    {i \in 1..(FirstAfter - 1) :
        ~Lt(input[i].time, win.t0) /\ is_finite(input[i].speed)}

\* the five accumulated positions that end with position i, if there are five
LastFive(i) ==
    {k \in Accumulated : k <= i /\ Cardinality({l \in Accumulated : k <= l /\ l <= i}) <= 5}

\* v is the median of the speeds at the five positions ps: the third smallest
IsMedian(v, ps) ==
    /\ \E k \in ps : input[k].speed = v
    /\ Cardinality({k \in ps : Lt(input[k].speed, v)}) <= 2
    /\ Cardinality({k \in ps : Gt(input[k].speed, v)}) <= 2

\* the medians of five at every point of the scan that had five accumulated
Medians ==
    {v \in {input[k].speed : k \in Accumulated} :
        \E i \in Accumulated : Cardinality(LastFive(i)) = 5 /\ IsMedian(v, LastFive(i))}

\* C6: the max of a returned Speed is the largest median of the five most
\* recently accumulated speeds, over every point with five accumulated
C6_MaxIsLargestMedian ==
    (pc = "done" /\ ret.some) =>
        /\ ret.val.max \in Medians
        /\ \A v \in Medians : Le(v, ret.val.max)

-----------------------------------------------------------------------------
(* the_everything on a record sequence *)

\* the most records given to the_everything
MaxEvLen == 5

\* a record at time t (its area and x follow its time)
EvRec(t) == [time |-> t, area |-> t, speed |-> F(1), midline |-> F(4), x |-> t,
             y |-> NAN]

EvTimes == {NAN, INFINITY, NEG_INFINITY, F(5), F(15)}

InitEverything ==
    /\ pc = "call"
    /\ debug \in BOOLEAN
    /\ id \in Ids
    /\ \E n \in 0..MaxEvLen : \E ts \in [1..n -> EvTimes] :
          input = [i \in 1..n |-> EvRec(ts[i])]
    /\ scores = Returned(ScoresZero)
    /\ RestMain /\ RestSpeed /\ RestCoord /\ RestSampled /\ RestTitle /\ RestMedian

CallEverything ==
    /\ pc = "call"
    /\ pc' = "done"
    /\ scores' = the_everything(id, input, debug)
    /\ UNCHANGED <<debug, file, buf, parsed, rows, id, input, win, scan, ret, sel,
                   coord, acc, sampled, row, header, arr, med>>

NextEverything == CallEverything

SpecEverything == InitEverything /\ [][NextEverything]_vars

\* the positions of the records with a finite time
FiniteTimes == {i \in 1..Len(input) : is_finite(input[i].time)}

\* C1: with no record of a finite time (no record at all, or a single record
\* with time NaN or an infinity among them) the_everything does not panic and
\* returns the zero Scores
C1_ZeroScoresWithoutFiniteTime ==
    (pc = "done" /\ FiniteTimes = {}) => (scores.panic = "" /\ scores.val = ScoresZero)

\* C9: with a record of a finite time, the_everything returns Scores whose t0
\* is the time of the first such record and whose t1 is the time of the last
C9_FirstAndLastFiniteTime ==
    (pc = "done" /\ FiniteTimes # {}) =>
        /\ scores.panic = ""
        /\ \E i \in FiniteTimes :
              /\ \A k \in FiniteTimes : i <= k
              /\ scores.val.t0 = input[i].time
        /\ \E i \in FiniteTimes :
              /\ \A k \in FiniteTimes : k <= i
              /\ scores.val.t1 = input[i].time

\* C9's case: times NaN, 5, +Infinity, 15, -Infinity give t0 = 5 and t1 = 15
C9_Witness ==
    /\ pc = "done"
    /\ Len(input) = 5
    /\ [i \in 1..5 |-> input[i].time] = <<NAN, F(5), INFINITY, F(15), NEG_INFINITY>>
    /\ scores.panic = ""
    /\ scores.val.t0 = F(5)
    /\ scores.val.t1 = F(15)

-----------------------------------------------------------------------------
(* the_coord on a record sequence *)

\* the most records given to the_coord
MaxCoordLen == 4

CoordRecords ==
    {[time |-> F(1), area |-> F(1), speed |-> F(1), midline |-> F(1), x |-> a, y |-> b] :
        a \in {NAN, F(1), F(3), F(5)}, b \in {INFINITY, F(-2)}}

InitCoord ==
    /\ pc = "call"
    /\ debug = FALSE
    /\ id = 0
    /\ \E n \in 0..MaxCoordLen : input \in [1..n -> CoordRecords]
    /\ sel \in {"x", "y"}
    /\ coord = CoordZero
    /\ RestMain /\ RestSpeed /\ RestScores /\ RestSampled /\ RestTitle /\ RestMedian

CallCoord ==
    /\ pc = "call"
    /\ pc' = "done"
    /\ coord' = the_coord(sel, input)
    /\ UNCHANGED <<debug, file, buf, parsed, rows, id, input, win, scan, ret, sel,
                   scores, acc, sampled, row, header, arr, med>>

NextCoord == CallCoord

SpecCoord == InitCoord /\ [][NextCoord]_vars

\* the positions of the records whose selected field is finite
FiniteAt == {i \in 1..Len(input) : is_finite(Field(sel, input[i]))}

\* C8: the_coord gives the zero Coord when no record has a finite selected
\* field; otherwise first and last are the first and the last finite value in
\* file order, bound0 and bound1 the least and the greatest finite value, and
\* n the number of finite values
C8_CoordOfFiniteValues ==
    pc = "done" =>
        IF FiniteAt = {}
        THEN /\ coord.stats.n = 0
             /\ coord.first = NAN /\ coord.last = NAN
             /\ coord.bound0 = NAN /\ coord.bound1 = NAN
             /\ coord.stats.mean = NAN /\ coord.stats.sem = NAN
        ELSE /\ \E i \in FiniteAt : (\A k \in FiniteAt : i <= k)
                                    /\ coord.first = Field(sel, input[i])
             /\ \E i \in FiniteAt : (\A k \in FiniteAt : k <= i)
                                    /\ coord.last = Field(sel, input[i])
             /\ \E i \in FiniteAt :
                   /\ \A k \in FiniteAt : Le(Field(sel, input[i]), Field(sel, input[k]))
                   /\ coord.bound0 = Field(sel, input[i])
             /\ \E i \in FiniteAt :
                   /\ \A k \in FiniteAt : Ge(Field(sel, input[i]), Field(sel, input[k]))
                   /\ coord.bound1 = Field(sel, input[i])
             /\ coord.stats.n = Cardinality(FiniteAt)

\* C8's case: x values NaN, 5, 1, 3 give first 5, last 3, bounds 1 and 5, n 3
C8_Witness ==
    /\ pc = "done"
    /\ sel = "x"
    /\ Len(input) = 4
    /\ [i \in 1..4 |-> input[i].x] = <<NAN, F(5), F(1), F(3)>>
    /\ coord.first = F(5) /\ coord.last = F(3)
    /\ coord.bound0 = F(1) /\ coord.bound1 = F(5)
    /\ coord.stats.n = 3

-----------------------------------------------------------------------------
(* Display and title of a Scores *)

S1 == [mean |-> Dec(15, -1), sem |-> Dec(25, -2), n |-> 11]

S2 == [mean |-> F(7), sem |-> NAN, n |-> 1]

Sp1 == [stats |-> [mean |-> Dec(-5, -1), sem |-> Dec(1, -1), n |-> 5], max |-> F(2)]

Sp2 == [stats |-> [mean |-> F(3), sem |-> F(0), n |-> 6], max |-> F(3)]

C1x == [first |-> F(4), last |-> F(-6), bound0 |-> F(-8), bound1 |-> F(9),
        stats |-> [mean |-> Dec(125, -2), sem |-> Dec(5, -1), n |-> 12]]

C2y == [first |-> INFINITY, last |-> F(13), bound0 |-> NEG_INFINITY, bound1 |-> F(14),
        stats |-> [mean |-> Dec(1, 3), sem |-> Dec(1234, -5), n |-> 10]]

OptSpeeds == {None, Some(Sp1), Some(Sp2)}

ScoresSet ==
    {[id |-> i, t0 |-> t[1], t1 |-> t[2], area |-> a, midline |-> S2,
      initial_speed |-> s1, calm_speed |-> s2, aroused_speed |-> s3, x |-> c, y |-> C2y] :
        i \in {0, 42}, t \in {<<NAN, NAN>>, <<F(5), F(450)>>}, a \in {SampledZero, S1},
        s1 \in OptSpeeds, s2 \in OptSpeeds, s3 \in OptSpeeds, c \in {CoordZero, C1x}}

InitTitle ==
    /\ pc = "call"
    /\ debug = FALSE
    /\ id = 0
    /\ input = <<>>
    /\ \E s \in ScoresSet : scores = Returned(s)
    /\ row = <<>>
    /\ header = <<>>
    /\ RestMain /\ RestSpeed /\ RestCoord /\ RestSampled /\ RestMedian

\* csv.push_str(score.title()) and csv.push_str(score.to_string())
Render ==
    /\ pc = "call"
    /\ pc' = "done"
    /\ header' = title(scores.val)
    /\ row' = ScoresDisplay(scores.val)
    /\ UNCHANGED <<debug, file, buf, parsed, rows, id, input, win, scan, ret, sel,
                   coord, scores, acc, sampled, arr, med>>

NextTitle == Render

SpecTitle == InitTitle /\ [][NextTitle]_vars

\* the text of the fields of a Sampled, a Speed and a Coord, by name
SampledNamed(pre, s) ==
    ((pre \o "n") :> FmtU(s.n)) @@ ((pre \o "mean") :> FmtF(s.mean))
    @@ ((pre \o "sem") :> FmtF(s.sem))

SpeedNamed(pre, o) ==
    SampledNamed(pre, unwrap_or(o, SpeedZero).stats)
    @@ ((pre \o "max") :> FmtF(unwrap_or(o, SpeedZero).max))

CoordNamed(pre, c) ==
    ((pre \o "first") :> FmtF(c.first)) @@ ((pre \o "last") :> FmtF(c.last))
    @@ ((pre \o "smallest") :> FmtF(c.bound0)) @@ ((pre \o "largest") :> FmtF(c.bound1))
    @@ SampledNamed(pre, c.stats)

\* the text of every field of a Scores, by the name of its column
Named(s) ==
    ("id" :> FmtU(s.id)) @@ ("t0" :> FmtF(s.t0)) @@ ("t1" :> FmtF(s.t1))
    @@ SampledNamed("area-", s.area) @@ SampledNamed("midline-", s.midline)
    @@ SpeedNamed("initial-", s.initial_speed) @@ SpeedNamed("calm-", s.calm_speed)
    @@ SpeedNamed("aroused-", s.aroused_speed)
    @@ CoordNamed("x-", s.x) @@ CoordNamed("y-", s.y)

\* the columns in the order of the row
Columns ==
    <<"id", "t0", "t1", "area-n", "area-mean", "area-sem",
      "midline-n", "midline-mean", "midline-sem",
      "initial-n", "initial-mean", "initial-sem", "initial-max",
      "calm-n", "calm-mean", "calm-sem", "calm-max",
      "aroused-n", "aroused-mean", "aroused-sem", "aroused-max",
      "x-first", "x-last", "x-smallest", "x-largest", "x-n", "x-mean", "x-sem",
      "y-first", "y-last", "y-smallest", "y-largest", "y-n", "y-mean", "y-sem">>

\* C7: the row and the header of a Scores have the same number of
\* space-separated tokens, the header names the columns in the order id, t0,
\* t1, area, midline, the three Speeds, x, y, and the k-th token of the row is
\* the value of the field the k-th token of the header names
C7_HeaderMatchesRow ==
    pc = "done" =>
        /\ Len(Tokens(row)) = Len(Tokens(header))
        /\ Tokens(header) = Columns
        /\ \A k \in 1..Len(Tokens(header)) :
              Tokens(row)[k] = Named(scores.val)[Tokens(header)[k]]

\* C7's case: a Scores with a present and two absent Speeds, rendered
C7_Witness ==
    /\ pc = "done"
    /\ ~scores.val.initial_speed.some
    /\ scores.val.calm_speed = Some(Sp1)
    /\ ~scores.val.aroused_speed.some
    /\ scores.val.x = C1x
    /\ Len(Tokens(row)) = 35
    /\ Tokens(row)[14] = "5" /\ Tokens(row)[15] = "-0.5" /\ Tokens(row)[17] = "2"
    /\ Tokens(row)[18] = "0" /\ Tokens(row)[19] = "NaN"

-----------------------------------------------------------------------------
(* The snapshot of an accumulator: Sampled::from, with r6 on mean and error *)

MaxExp == 12

Mantissas == {1, 5, 25, 123455, 1234567, 123456789}

Spreads == {1, 12345}

\* the accumulators of the model: one value m * 10^e, or the two values
\* (m - d) * 10^e and (m + d) * 10^e, whose mean is m * 10^e and whose
\* error is d * 10^e
Accumulators ==
    {VarianceAdd(VarianceNew, Dec(sg * m, e)) :
        sg \in {-1, 1}, m \in Mantissas, e \in (-MaxExp)..MaxExp}
    \cup
    {VarianceAdd(VarianceAdd(VarianceNew, Dec(sg * m - d, e)), Dec(sg * m + d, e)) :
        sg \in {-1, 1}, m \in Mantissas, e \in (-MaxExp)..MaxExp, d \in Spreads}

InitSampled ==
    /\ pc = "call"
    /\ debug = FALSE
    /\ id = 0
    /\ input = <<>>
    /\ acc \in Accumulators
    /\ sampled = SampledZero
    /\ RestMain /\ RestSpeed /\ RestCoord /\ RestScores /\ RestTitle /\ RestMedian

\* Sampled::from(v)
Snapshot ==
    /\ pc = "call"
    /\ pc' = "done"
    /\ sampled' = SampledFrom(acc)
    /\ UNCHANGED <<debug, file, buf, parsed, rows, id, input, win, scan, ret, sel,
                   coord, scores, acc, row, header, arr, med>>

NextSampled == Snapshot

SpecSampled == InitSampled /\ [][NextSampled]_vars

\* r is a multiple of 10^u nearest to the finite v (either one at a tie);
\* a v that is a multiple of 10^u already is r itself
IsRounded(v, r, u) ==
    IF v.e >= u THEN FEq(r, v)
    ELSE /\ r.k = "fin"
         /\ Norm(r).m = 0 \/ Norm(r).e >= u
         /\ 2 * AbsInt(Norm(r).m * Pow10(Norm(r).e - v.e) - v.m) <= Pow10(u - v.e)

\* the place of the sixth significant digit of the finite v # 0
SixthDigit(v) == v.e + Digits(AbsInt(v.m)) - 6

\* r is what the law of r6 gives for v, the values of 0.01 <= |v| < 1e12
\* being rounded to a multiple of 10^u
R6Law(v, r, u) ==
    IF ~is_finite(v) THEN TRUE
    ELSE IF Lt(abs(v), Dec(1, 12)) /\ Ge(abs(v), Dec(1, -2)) THEN IsRounded(v, r, u)
    ELSE IF Lt(abs(v), Dec(1, -2)) /\ Ge(abs(v), Dec(1, -4)) THEN IsRounded(v, r, -8)
    ELSE FEq(r, v)

\* C10 as stated: the mean and sem of a Sampled are the accumulator's mean
\* and error rounded to 6 significant digits when 0.01 <= |v| < 1e12, to 8
\* decimal digits when 1e-4 <= |v| < 0.01, and unchanged otherwise
C10_SixSignificantDigits ==
    pc = "done" =>
        /\ R6Law(VarianceMean(acc), sampled.mean, SixthDigit(VarianceMean(acc)))
        /\ R6Law(VarianceError(acc), sampled.sem, SixthDigit(VarianceError(acc)))

\* C10, amended: the mean and sem of a Sampled are the accumulator's mean and
\* error rounded to 6 decimal digits when 0.01 <= |v| < 1e12, to 8 decimal
\* digits when 1e-4 <= |v| < 0.01, and unchanged otherwise
C10_SixDecimalDigits ==
    pc = "done" =>
        /\ R6Law(VarianceMean(acc), sampled.mean, -6)
        /\ R6Law(VarianceError(acc), sampled.sem, -6)
        /\ sampled.n = VarianceLen(acc)

\* C10's case: the mean 12.3456789 is stored as 12.345679 (not 12.3457) and
\* the error 0.0012345 is stored unchanged
C10_Witness ==
    /\ pc = "done"
    /\ acc = <<Dec(123444444, -7), Dec(123469134, -7)>>
    /\ sampled = [mean |-> Dec(12345679, -6), sem |-> Dec(12345, -7), n |-> 2]

-----------------------------------------------------------------------------
(* median5 on an array of five ordered values *)

MaxMed == 3

\* the totally ordered f64 values of the model: the integers -2 .. MaxMed and
\* the two infinities
Ordered == {F(i) : i \in (-2)..MaxMed} \cup {NEG_INFINITY, INFINITY}

InitMedian ==
    /\ pc = "call"
    /\ debug = FALSE
    /\ id = 0
    /\ input = <<>>
    /\ arr \in [1..5 -> Ordered]
    /\ med = NAN
    /\ RestMain /\ RestSpeed /\ RestCoord /\ RestScores /\ RestSampled /\ RestTitle

\* let s = median5(&five)
CallMedian ==
    /\ pc = "call"
    /\ pc' = "done"
    /\ med' = median5(arr)
    /\ UNCHANGED <<debug, file, buf, parsed, rows, id, input, win, scan, ret, sel,
                   coord, scores, acc, sampled, row, header, arr>>

NextMedian == CallMedian

SpecMedian == InitMedian /\ [][NextMedian]_vars

\* the slots of arr below and above the value v
Below(v) == {i \in 1..5 : Lt(arr[i], v)}

Above(v) == {i \in 1..5 : Gt(arr[i], v)}

\* v is the third smallest of arr, the element at index 2 of arr sorted: a
\* value of arr with at most two slots below it and at most two above it
IsThirdSmallest(v) ==
    /\ \E i \in 1..5 : arr[i] = v
    /\ Cardinality(Below(v)) <= 2
    /\ Cardinality(Above(v)) <= 2

\* C11: for every array of 5 totally ordered values, repeated values or not,
\* median5 returns the third smallest, the middle element of the sorted array
C11_MedianIsMiddleOfSorted ==
    pc = "done" => IsThirdSmallest(med)

\* C11's case: the array 2, -inf, 2, -1, 1 with a repeated value, whose
\* middle element 1 is the last slot
C11_Witness ==
    /\ pc = "done"
    /\ arr = <<F(2), NEG_INFINITY, F(2), F(-1), F(1)>>
    /\ med = F(1)

====
